---- MODULE Spec2Model ----
(***************************************************************************)
(* News Sentiment API (code/server/main.py): the two TTL caches, the rate  *)
(* gate, the 4-page aggregation pipeline with sentiment enrichment, and    *)
(* the three query handlers get_news, refresh_news and get_stats.          *)
(*                                                                         *)
(* Conventions.  An Optional value is a sequence of length 0 (None) or 1.  *)
(* Scores are in hundredths (0.5 is 50).  A formatted key f"a:{x}:{y}" is  *)
(* the tuple <<a, str(x), y>>, which is injective as long as no symbol     *)
(* contains a colon.  Time is the integer reading of the cache timer.      *)
(***************************************************************************)
EXTENDS Integers, Sequences, FiniteSets

VARIABLES upstream, now, ticks, budget, rate_limit_cache, news_cache, req, last, accepted, written

vars == <<upstream, now, ticks, budget, rate_limit_cache, news_cache, req, last, accepted, written>>

\* ------------------------------------------------------------ constants
NEWS_CACHE_TTL == 600
RATE_LIMIT_TTL == 10
NEWS_CACHE_MAXSIZE == 500
RATE_LIMIT_MAXSIZE == 100
PAGE_COUNT == 4
REFRESH_LIMIT == 10
CANONICAL_PAGE == 1
CANONICAL_LIMIT == 30
DEFAULT_SCORE == 50
TOP_N == 5

\* ------------------------------------------------------------ bounds
MaxInFlight == 2
MaxTicks == 2
MaxRequests == 2

None == <<>>
Some(x) == <<x>>

\* ------------------------------------------------------------ TTLCache
\* A cache is the sequence of its items [key, value, expires] in the order
\* of the OrderedDict of links: least recently used first.
CacheKeysOf(cache) == {cache[i].key : i \in 1..Len(cache)}

IndexOf(cache, key) == CHOOSE i \in 1..Len(cache) : cache[i].key = key

RemoveAt(s, i) == SubSeq(s, 1, i - 1) \o SubSeq(s, i + 1, Len(s))

\* A membership test that still finds an item at the instant it expires.
ContainsInclusive(cache, key, t) ==
    \E i \in 1..Len(cache) : cache[i].key = key /\ t <= cache[i].expires

\* TTLCache.__contains__: the link exists and timer() < link.expires.
Contains(cache, key, t) ==
    \E i \in 1..Len(cache) : cache[i].key = key /\ t < cache[i].expires

\* TTLCache.expire(time): drop every item with expires <= time.
Expire(cache, t) == SelectSeq(cache, LAMBDA e : t < e.expires)

\* Cache.__setitem__ evicts with popitem() while the cache is full and the
\* key is new; TTLCache.popitem drops the first link (least recently used).
RECURSIVE Evict(_, _)
Evict(cache, maxsize) ==
    IF Len(cache) + 1 > maxsize /\ Len(cache) > 0
    THEN Evict(Tail(cache), maxsize)
    ELSE cache

\* TTLCache.__setitem__(key, value) at timer reading t.
SetItem(cache, key, value, t, ttl, maxsize) ==
    LET live == Expire(cache, t)
        item == [key |-> key, value |-> value, expires |-> t + ttl]
    IN  IF key \in CacheKeysOf(live)
        THEN RemoveAt(live, IndexOf(live, key)) \o <<item>>
        ELSE Evict(live, maxsize) \o <<item>>

\* TTLCache.__getitem__(key) at timer reading t: None stands for KeyError.
GetItem(cache, key, t) ==
    IF Contains(cache, key, t) THEN Some(cache[IndexOf(cache, key)].value) ELSE None

\* __getitem__ moves the link of the key to the end (most recently used).
Touch(cache, key) ==
    IF key \in CacheKeysOf(cache)
    THEN LET i == IndexOf(cache, key) IN RemoveAt(cache, i) \o <<cache[i]>>
    ELSE cache

\* ------------------------------------------------------------ keys
\* symbols or 'general'
OrGeneral(symbols) ==
    IF symbols = None \/ symbols = Some("") THEN "general" ELSE symbols[1]

\* str(symbols) inside an f-string
Str(symbols) == IF symbols = None THEN "None" ELSE symbols[1]

NewsRateKey(symbols) == <<"rate_limit", OrGeneral(symbols)>>

\* refresh_news sharing the key namespace of get_news.
RefreshRateKeyShared(symbols) == <<"rate_limit", OrGeneral(symbols)>>

RefreshRateKey(symbols) == <<"rate_limit_refresh", OrGeneral(symbols)>>

CacheKey(symbols, page, limit) == <<"news", Str(symbols), page, limit>>

\* The key refresh_news writes with its own page size instead of 30.
RefreshKeyOwnLimit(symbols) == CacheKey(symbols, CANONICAL_PAGE, REFRESH_LIMIT)

\* f"news:{symbols}:1:30" in refresh_news.
RefreshKey(symbols) == CacheKey(symbols, CANONICAL_PAGE, CANONICAL_LIMIT)

\* f"news:{symbols}:1:30" in get_stats.
StatsKey(symbols) == CacheKey(symbols, CANONICAL_PAGE, CANONICAL_LIMIT)

\* ------------------------------------------------------------ sentiment
\* str.lower() on the labels the sentiment provider is modelled to send.
Lower(label) ==
    CASE label = "Positive" -> "positive"
      [] label = "NEGATIVE" -> "negative"
      [] label = "Neutral" -> "neutral"
      [] OTHER -> label

\* sentiment_mapping.get(label, "NEUTRAL")
SentimentMapping(label) ==
    CASE label = "positive" -> "POSITIVE"
      [] label = "neutral" -> "NEUTRAL"
      [] label = "negative" -> "NEGATIVE"
      [] OTHER -> "NEUTRAL"

\* max(result[0], key=score): the first element with the highest score.
MaxByScore(ranked) ==
    ranked[CHOOSE i \in 1..Len(ranked) :
              /\ \A j \in 1..Len(ranked) : ranked[j].score <= ranked[i].score
              /\ \A j \in 1..(i - 1) : ranked[j].score < ranked[i].score]

\* get_sentiment: reply is None when the call, the JSON decoding or result[0]
\* raises, else Some(result[0]); max() of an empty list raises as well.
get_sentiment(reply) ==
    IF reply = None \/ reply = Some(<<>>)
    THEN [label |-> "NEUTRAL", score |-> DEFAULT_SCORE]
    ELSE LET best == MaxByScore(reply[1])
         IN  [label |-> SentimentMapping(Lower(best.label)), score |-> best.score]

\* ------------------------------------------------------------ transform
EntityRaises(entity) ==
    \/ "type" \notin DOMAIN entity
    \/ entity.type = "equity" /\ "symbol" \notin DOMAIN entity

\* The subscripts of one raw record that raise KeyError.
RecordRaises(article) ==
    \/ {"entities", "uuid", "title", "description", "source", "url", "published_at"}
          \ DOMAIN article # {}
    \/ \E i \in 1..Len(article.entities) : EntityRaises(article.entities[i])
    \/ article.description = "" /\ "snippet" \notin DOMAIN article

TransformRecord(article) ==
    LET equities == SelectSeq(article.entities, LAMBDA e : e.type = "equity")
    IN  [id |-> article.uuid,
         title |-> article.title,
         description |-> IF article.description # "" THEN article.description
                         ELSE article.snippet,
         source |-> article.source,
         url |-> article.url,
         publishedAt |-> article.published_at,
         relatedSymbols |-> [i \in 1..Len(equities) |-> equities[i].symbol]]

\* transform_news_data: None when a subscript raises, else Some(articles).
transform_news_data(marketaux_response) ==
    LET data == marketaux_response.data
    IN  IF \E i \in 1..Len(data) : RecordRaises(data[i])
        THEN None
        ELSE Some([i \in 1..Len(data) |-> TransformRecord(data[i])])

\* ------------------------------------------------------------ sort
\* list.sort(key=publishedAt, reverse=True): descending and stable.
\* A descending sort that puts an article before the earlier ones of its date.
RECURSIVE InsertDescUnstable(_, _)
InsertDescUnstable(sorted, a) ==
    IF sorted = <<>> THEN <<a>>
    ELSE IF Head(sorted).publishedAt > a.publishedAt
         THEN <<Head(sorted)>> \o InsertDescUnstable(Tail(sorted), a)
         ELSE <<a>> \o sorted

RECURSIVE InsertDesc(_, _)
InsertDesc(sorted, a) ==
    IF sorted = <<>> THEN <<a>>
    ELSE IF Head(sorted).publishedAt >= a.publishedAt
         THEN <<Head(sorted)>> \o InsertDesc(Tail(sorted), a)
         ELSE <<a>> \o sorted

RECURSIVE SortDesc(_)
SortDesc(news) ==
    IF news = <<>> THEN <<>>
    ELSE InsertDesc(SortDesc(SubSeq(news, 1, Len(news) - 1)), news[Len(news)])

\* ------------------------------------------------------------ pipeline
\* `result and 'data' in result` for a fetch result (None or Some(body)).
HasData(result) == result # None /\ "data" \in DOMAIN result[1]

\* Enrichment that leaves an article as transformed when its call fails.
EnrichSkipFailed(news_data, replies, calls) ==
    [i \in 1..Len(news_data) |->
        IF replies[calls + i] = None
        THEN news_data[i]
        ELSE LET s == get_sentiment(replies[calls + i])
             IN  [id |-> news_data[i].id,
                  title |-> news_data[i].title,
                  description |-> news_data[i].description,
                  source |-> news_data[i].source,
                  url |-> news_data[i].url,
                  publishedAt |-> news_data[i].publishedAt,
                  relatedSymbols |-> news_data[i].relatedSymbols,
                  sentiment |-> s.label,
                  sentiment_score |-> s.score]]

\* Enrichment in which one failed call turns every article of the page into
\* the default.
EnrichFailsPage(news_data, replies, calls) ==
    [i \in 1..Len(news_data) |->
        LET failed == \E j \in 1..Len(news_data) : replies[calls + j] = None
            s == IF failed THEN get_sentiment(None) ELSE get_sentiment(replies[calls + i])
        IN  [id |-> news_data[i].id,
             title |-> news_data[i].title,
             description |-> news_data[i].description,
             source |-> news_data[i].source,
             url |-> news_data[i].url,
             publishedAt |-> news_data[i].publishedAt,
             relatedSymbols |-> news_data[i].relatedSymbols,
             sentiment |-> s.label,
             sentiment_score |-> s.score]]

Enrich(news_data, replies, calls) ==
    [i \in 1..Len(news_data) |->
        LET s == get_sentiment(replies[calls + i])
        IN  [id |-> news_data[i].id,
             title |-> news_data[i].title,
             description |-> news_data[i].description,
             source |-> news_data[i].source,
             url |-> news_data[i].url,
             publishedAt |-> news_data[i].publishedAt,
             relatedSymbols |-> news_data[i].relatedSymbols,
             sentiment |-> s.label,
             sentiment_score |-> s.score]]

\* The loop with combined_news.extend(news_data) inside the loop over the
\* articles: a page of n articles is appended n times.
RECURSIVE Repeat(_, _)
Repeat(news_data, n) == IF n = 0 THEN <<>> ELSE news_data \o Repeat(news_data, n - 1)

RECURSIVE CombineExtendInside(_, _, _, _, _)
CombineExtendInside(api_results, page, replies, combined_news, calls) ==
    IF page > Len(api_results)
    THEN [raised |-> FALSE, news |-> combined_news, calls |-> calls]
    ELSE IF ~HasData(api_results[page])
    THEN CombineExtendInside(api_results, page + 1, replies, combined_news, calls)
    ELSE LET news_data == transform_news_data(api_results[page][1])
         IN  IF news_data = None
             THEN [raised |-> TRUE, news |-> combined_news, calls |-> calls]
             ELSE CombineExtendInside(api_results, page + 1, replies,
                      combined_news \o Repeat(Enrich(news_data[1], replies, calls),
                                              Len(news_data[1])),
                      calls + Len(news_data[1]))

\* The loop over api_results after the gather: raised is set when
\* transform_news_data raises, calls counts the sentiment calls budget.
RECURSIVE Combine(_, _, _, _, _)
Combine(api_results, page, replies, combined_news, calls) ==
    IF page > Len(api_results)
    THEN [raised |-> FALSE, news |-> combined_news, calls |-> calls]
    ELSE IF ~HasData(api_results[page])
    THEN Combine(api_results, page + 1, replies, combined_news, calls)
    ELSE LET news_data == transform_news_data(api_results[page][1])
         IN  IF news_data = None
             THEN [raised |-> TRUE, news |-> combined_news, calls |-> calls]
             ELSE Combine(api_results, page + 1, replies,
                          combined_news \o Enrich(news_data[1], replies, calls),
                          calls + Len(news_data[1]))

\* Number of sentiment calls a run over api_results issues.
RECURSIVE CallsNeeded(_, _)
CallsNeeded(api_results, page) ==
    IF page > Len(api_results) THEN 0
    ELSE IF ~HasData(api_results[page]) THEN CallsNeeded(api_results, page + 1)
    ELSE IF transform_news_data(api_results[page][1]) = None THEN 0
    ELSE Len(api_results[page][1].data) + CallsNeeded(api_results, page + 1)

\* ------------------------------------------------------------ stats
RECURSIVE FirstSeen(_)
FirstSeen(names) ==
    IF names = <<>> THEN <<>>
    ELSE LET init == FirstSeen(SubSeq(names, 1, Len(names) - 1))
             x == names[Len(names)]
         IN  IF \E i \in 1..Len(init) : init[i] = x THEN init ELSE Append(init, x)

Count(names, x) == Cardinality({i \in 1..Len(names) : names[i] = x})

\* dict.items() of a counting dict: keys in first-insertion order.
Counts(names) ==
    [i \in 1..Len(FirstSeen(names)) |->
        [name |-> FirstSeen(names)[i], count |-> Count(names, FirstSeen(names)[i])]]

RECURSIVE InsertByCount(_, _)
InsertByCount(sorted, a) ==
    IF sorted = <<>> THEN <<a>>
    ELSE IF Head(sorted).count >= a.count
         THEN <<Head(sorted)>> \o InsertByCount(Tail(sorted), a)
         ELSE <<a>> \o sorted

RECURSIVE SortByCount(_)
SortByCount(items) ==
    IF items = <<>> THEN <<>>
    ELSE InsertByCount(SortByCount(SubSeq(items, 1, Len(items) - 1)), items[Len(items)])

\* The first 5 items of the counting dict, without the sort.
TopFirstSeen(names) ==
    SubSeq(Counts(names), 1,
           IF Len(Counts(names)) < TOP_N THEN Len(Counts(names)) ELSE TOP_N)

\* sorted(counts.items(), key=count, reverse=True)[:5]
Top(names) ==
    LET ranked == SortByCount(Counts(names))
    IN  SubSeq(ranked, 1, IF Len(ranked) < TOP_N THEN Len(ranked) ELSE TOP_N)

RECURSIVE Flatten(_)
Flatten(lists) ==
    IF lists = <<>> THEN <<>> ELSE Head(lists) \o Flatten(Tail(lists))

\* The body of get_stats after the cache read.
Stats(news_data) ==
    LET labels == [i \in 1..Len(news_data) |-> news_data[i].sentiment]
        sources == [i \in 1..Len(news_data) |-> news_data[i].source]
        symbols == Flatten([i \in 1..Len(news_data) |-> news_data[i].relatedSymbols])
    IN  [status |-> "ok",
         total_articles |-> Len(news_data),
         sentiment_distribution |->
             [l \in {"POSITIVE", "NEUTRAL", "NEGATIVE"} |-> Count(labels, l)],
         top_sources |-> Top(sources),
         top_symbols |-> Top(symbols)]

NoData ==
    [status |-> "no_data",
     total_articles |-> 0,
     sentiment_distribution |-> [l \in {"POSITIVE", "NEUTRAL", "NEGATIVE"} |-> 0],
     top_sources |-> <<>>,
     top_symbols |-> <<>>]

\* ------------------------------------------------------------ upstream
\* What the two providers are modelled to answer.
Entity(type, symbol) == [type |-> type, symbol |-> symbol]

RawA ==
    [uuid |-> "a", title |-> "ta", description |-> "", snippet |-> "sa",
     source |-> "A", url |-> "ua", published_at |-> 1,
     entities |-> <<Entity("equity", "AAPL"), Entity("index", "SPX")>>]

RawB ==
    [uuid |-> "b", title |-> "tb", description |-> "db", snippet |-> "sb",
     source |-> "B", url |-> "ub", published_at |-> 2,
     entities |-> <<Entity("equity", "MSFT")>>]

RawC ==
    [uuid |-> "c", title |-> "tc", description |-> "dc",
     source |-> "A", url |-> "uc", published_at |-> 2,
     entities |-> <<Entity("equity", "AAPL"), Entity("equity", "AAPL")>>]

\* A record without the fields transform_news_data subscripts.
RawBad == [uuid |-> "x", title |-> "tx"]

\* Results of fetch_news_page: None (the request, the status check or the
\* JSON decoding raised) or Some(body).  Replies to one sentiment call: None
\* (the call raised), else Some(result[0]).
ErrorBody == [error |-> "usage limit reached"]

Ranked(label, score) ==
    Some(<<[label |-> "neutral", score |-> 10], [label |-> label, score |-> score]>>)

\* Few answers, for the behaviours with several requests.
SmallUpstream ==
    [pages |-> [page \in 1..PAGE_COUNT |->
                   {None} \cup
                   CASE page = 1 -> {Some([data |-> <<RawA>>])}
                     [] page = 3 -> {Some([data |-> <<RawBad>>])}
                     [] OTHER -> {}],
     sentiment |-> {None, Ranked("Positive", 90)}]

\* Every kind of answer on every page, for the behaviours of one run.
RichUpstream ==
    [pages |-> [page \in 1..PAGE_COUNT |->
                   {None, Some(ErrorBody), Some([data |-> <<>>]),
                    Some([data |-> <<RawBad>>])} \cup
                   CASE page = 1 -> {Some([data |-> <<RawA, RawB>>])}
                     [] page = 2 -> {Some([data |-> <<RawC>>])}
                     [] page = 3 -> {Some([data |-> <<RawB>>])}
                     [] OTHER -> {Some([data |-> <<RawA>>])}],
     sentiment |-> {None, Some(<<>>), Ranked("Positive", 90), Ranked("NEGATIVE", 80),
                    Ranked("bullish", 70)}]

\* ------------------------------------------------------------ requests
Symbols == {None, Some("AAPL")}
Pages == {1, 2}
Limits == {30}
Drift == {0, 1}
TickSteps == {9, 10, 590}

Req == 1..MaxInFlight

\* The request parameters of fetch_news_page(client, symbols, page, limit).
RequestParams(symbols, page, limit) ==
    [symbols |-> IF symbols = None THEN "" ELSE symbols[1], page |-> page, limit |-> limit]

\* [fetch_news_page(client, symbols, page, base_limit) for page in range(1, 5)]
FetchTasks(symbols, base_limit) ==
    [page \in 1..PAGE_COUNT |-> RequestParams(symbols, page, base_limit)]

NoResults == [p \in 1..PAGE_COUNT |-> None]

IdleReq ==
    [pc |-> "idle", op |-> "none", symbols |-> None, page |-> 0, limit |-> 0,
     base_limit |-> 0, fetch_tasks |-> <<>>, pending |-> 0, since |-> -1]

NoResp ==
    [kind |-> "none", symbols |-> None, page |-> 0, limit |-> 0, status |-> 0,
     body |-> <<>>, stats |-> NoData, hit |-> FALSE, fetches |-> 0, calls |-> 0,
     since |-> -1, fetch_tasks |-> <<>>, api_results |-> NoResults, replies |-> <<>>]

\* History: the time of the last accepted request of a kind ("news" or
\* "refresh") for a symbols filter ('general' when there is none), -1 if none.
Filter(symbols) == IF symbols = None \/ symbols = Some("") THEN "general" ELSE symbols[1]

AcceptedAt(kind, symbols) ==
    IF \E e \in accepted : e.kind = kind /\ e.filter = Filter(symbols)
    THEN (CHOOSE e \in accepted : e.kind = kind /\ e.filter = Filter(symbols)).at
    ELSE -1

Since(kind, symbols) ==
    IF AcceptedAt(kind, symbols) = -1 THEN -1 ELSE now - AcceptedAt(kind, symbols)

Accept(kind, symbols) ==
    {e \in accepted : ~(e.kind = kind /\ e.filter = Filter(symbols))}
        \cup {[kind |-> kind, filter |-> Filter(symbols), at |-> now]}

\* History: the value of the last write under a news cache key, <<>> if none,
\* the time of that write, -1 if none, and the number of writes under the key.
WrittenAt(key) ==
    IF \E e \in written : e.key = key
    THEN (CHOOSE e \in written : e.key = key).value
    ELSE <<>>

WriteTime(key) ==
    IF \E e \in written : e.key = key
    THEN (CHOOSE e \in written : e.key = key).at
    ELSE -1

Writes(key) ==
    IF \E e \in written : e.key = key
    THEN (CHOOSE e \in written : e.key = key).n
    ELSE 0

Write(key, value) ==
    {e \in written : e.key # key}
        \cup {[key |-> key, value |-> value, at |-> now, n |-> Writes(key) + 1]}

\* A request arrives: budget is the number of requests the behaviour may
\* still issue.
Arrive == budget > 0 /\ budget' = budget - 1

FreeSlot(r) == req[r].pc = "idle" /\ \A q \in 1..(r - 1) : req[q].pc # "idle"

Init ==
    /\ upstream = SmallUpstream
    /\ now = 0
    /\ ticks = 0
    /\ budget = MaxRequests
    /\ rate_limit_cache = <<>>
    /\ news_cache = <<>>
    /\ req = [r \in Req |-> IdleReq]
    /\ last = NoResp
    /\ accepted = {}
    /\ written = {}

\* The clock advances between two handler steps.
Tick(d) ==
    /\ ticks < MaxTicks
    /\ now' = now + d
    /\ ticks' = ticks + 1
    /\ last' = NoResp
    /\ UNCHANGED <<upstream, budget, rate_limit_cache, news_cache, req, accepted, written>>

\* ------------------------------------------------------------ handlers
RateLimited(rate_limit_key) == Contains(rate_limit_cache, rate_limit_key, now)

\* A 429 that is reported while the handler goes on to start the pipeline.
RejectAndFetch(kind, symbols, page, limit, since) ==
    /\ last' = [NoResp EXCEPT !.kind = kind, !.symbols = symbols, !.page = page,
                              !.limit = limit, !.status = 429, !.since = since]
    /\ req' = [req EXCEPT ![CHOOSE r \in Req : FreeSlot(r)] =
                  [pc |-> "fetching", op |-> kind, symbols |-> symbols, page |-> page,
                   limit |-> limit, base_limit |-> limit \div 3,
                   fetch_tasks |-> FetchTasks(symbols, limit \div 3),
                   pending |-> PAGE_COUNT, since |-> since]]
    /\ UNCHANGED <<now, rate_limit_cache, news_cache, accepted, written>>

\* raise HTTPException(status_code=429): nothing else happens.
Reject(kind, symbols, page, limit, since) ==
    /\ last' = [NoResp EXCEPT !.kind = kind, !.symbols = symbols, !.page = page,
                              !.limit = limit, !.status = 429, !.since = since]
    /\ UNCHANGED <<now, rate_limit_cache, news_cache, req, accepted, written>>

\* rate_limit_cache[rate_limit_key] = datetime.now()
Admit(kind, symbols, rate_limit_key) ==
    /\ rate_limit_cache' = SetItem(rate_limit_cache, rate_limit_key, now, now,
                                   RATE_LIMIT_TTL, RATE_LIMIT_MAXSIZE)
    /\ accepted' = Accept(kind, symbols)

\* `return news_cache[cache_key]` after `cache_key in news_cache` held: the
\* timer is read again, d later, and an entry that expired in between makes
\* __getitem__ raise KeyError, which the handler turns into a 500.
ServeCached(kind, symbols, page, limit, cache_key, since) ==
    \E d \in Drift :
        LET cached == GetItem(news_cache, cache_key, now + d)
        IN  /\ now' = now + d
            /\ news_cache' = Touch(news_cache, cache_key)
            /\ last' = [NoResp EXCEPT !.kind = kind, !.symbols = symbols, !.page = page,
                                      !.limit = limit, !.since = since, !.hit = TRUE,
                                      !.status = IF cached = None THEN 500 ELSE 200,
                                      !.body = IF cached = None THEN <<>> ELSE cached[1]]
            /\ UNCHANGED <<req, written>>

\* A fan-out that fetches the 4 upstream pages starting at the request's page.
StartPipelineAtPage(r, op, symbols, page, limit, base_limit, since) ==
    /\ req' = [req EXCEPT ![r] =
                  [pc |-> "fetching", op |-> op, symbols |-> symbols, page |-> page,
                   limit |-> limit, base_limit |-> base_limit,
                   fetch_tasks |-> [p \in 1..PAGE_COUNT |->
                                       RequestParams(symbols, page + p - 1, base_limit)],
                   pending |-> PAGE_COUNT, since |-> since]]
    /\ last' = NoResp
    /\ UNCHANGED <<now, news_cache, written>>

\* fetch_all_news_pages up to the gather: the 4 page requests are in flight.
StartPipeline(r, op, symbols, page, limit, base_limit, since) ==
    /\ req' = [req EXCEPT ![r] =
                  [pc |-> "fetching", op |-> op, symbols |-> symbols, page |-> page,
                   limit |-> limit, base_limit |-> base_limit,
                   fetch_tasks |-> FetchTasks(symbols, base_limit),
                   pending |-> PAGE_COUNT, since |-> since]]
    /\ last' = NoResp
    /\ UNCHANGED <<now, news_cache, written>>

\* GET /api/news up to its first suspension (or its response).
get_news(r, symbols, page, limit) ==
    /\ FreeSlot(r)
    /\ Arrive
    /\ LET rate_limit_key == NewsRateKey(symbols)
           cache_key == CacheKey(symbols, page, limit)
           since == Since("news", symbols)
       IN  IF RateLimited(rate_limit_key)
           THEN Reject("news", symbols, page, limit, since)
           ELSE /\ Admit("news", symbols, rate_limit_key)
                /\ IF Contains(news_cache, cache_key, now)
                   THEN ServeCached("news", symbols, page, limit, cache_key, since)
                   ELSE StartPipeline(r, "news", symbols, page, limit, limit \div 3, since)
    /\ UNCHANGED <<upstream, ticks>>

\* A refresh that answers from the canonical entry while it is live.
refresh_newsCacheFirst(r, symbols) ==
    /\ FreeSlot(r)
    /\ Arrive
    /\ LET rate_limit_key == RefreshRateKey(symbols)
           cache_key == RefreshKey(symbols)
           since == Since("refresh", symbols)
       IN  IF RateLimited(rate_limit_key)
           THEN Reject("refresh", symbols, CANONICAL_PAGE, CANONICAL_LIMIT, since)
           ELSE /\ Admit("refresh", symbols, rate_limit_key)
                /\ IF Contains(news_cache, cache_key, now)
                   THEN ServeCached("refresh", symbols, CANONICAL_PAGE, CANONICAL_LIMIT,
                                    cache_key, since)
                   ELSE StartPipeline(r, "refresh", symbols, CANONICAL_PAGE,
                                      CANONICAL_LIMIT, REFRESH_LIMIT, since)
    /\ UNCHANGED <<upstream, ticks>>

\* GET /api/news/refresh up to its first suspension (or its response).
refresh_news(r, symbols) ==
    /\ FreeSlot(r)
    /\ Arrive
    /\ LET rate_limit_key == RefreshRateKey(symbols)
           since == Since("refresh", symbols)
       IN  IF RateLimited(rate_limit_key)
           THEN Reject("refresh", symbols, CANONICAL_PAGE, CANONICAL_LIMIT, since)
           ELSE /\ Admit("refresh", symbols, rate_limit_key)
                /\ StartPipeline(r, "refresh", symbols, CANONICAL_PAGE, CANONICAL_LIMIT,
                                 REFRESH_LIMIT, since)
    /\ UNCHANGED <<upstream, ticks>>

\* A page fetch whose last request neither returns nor fails.
fetch_news_pageHangs(r) ==
    /\ req[r].pc = "fetching"
    /\ req[r].pending > 1
    /\ req' = [req EXCEPT ![r].pending = @ - 1]
    /\ last' = NoResp
    /\ UNCHANGED <<upstream, now, ticks, budget, rate_limit_cache, news_cache, accepted, written>>

\* One of the gathered fetch_news_page tasks returns; what it returned is
\* read only after the gather, in Resume.
fetch_news_page(r) ==
    /\ req[r].pc = "fetching"
    /\ req[r].pending > 0
    /\ req' = [req EXCEPT ![r].pending = @ - 1]
    /\ last' = NoResp
    /\ UNCHANGED <<upstream, now, ticks, budget, rate_limit_cache, news_cache, accepted, written>>

\* What asyncio.gather returns: one result per page, in page order.
ApiResults ==
    {res \in [1..PAGE_COUNT -> UNION {upstream.pages[p] : p \in 1..PAGE_COUNT}] :
        \A p \in 1..PAGE_COUNT : res[p] \in upstream.pages[p]}

\* The end of the handler without the `if fetched_news:` test.
DeliverAlwaysCache(r, cache_key, api_results, out, replies) ==
    LET fetched_news == SortDesc(out.news)
        resp == [NoResp EXCEPT !.kind = req[r].op, !.symbols = req[r].symbols,
                               !.page = req[r].page, !.limit = req[r].limit,
                               !.since = req[r].since,
                               !.fetches = PAGE_COUNT - req[r].pending,
                               !.calls = out.calls,
                               !.fetch_tasks = req[r].fetch_tasks,
                               !.api_results = api_results,
                               !.replies = replies]
    IN  IF out.raised
        THEN /\ last' = [resp EXCEPT !.status = 500]
             /\ UNCHANGED <<news_cache, written>>
        ELSE /\ news_cache' = SetItem(news_cache, cache_key, fetched_news, now,
                                      NEWS_CACHE_TTL, NEWS_CACHE_MAXSIZE)
             /\ written' = Write(cache_key, fetched_news)
             /\ last' = [resp EXCEPT !.status = 200, !.body = fetched_news]

\* A write that appends the result to the live entry of the key.
DeliverMerge(r, cache_key, api_results, out, replies) ==
    LET fetched_news == SortDesc(out.news)
        cached == GetItem(news_cache, cache_key, now)
        merged == IF cached = None THEN fetched_news ELSE cached[1] \o fetched_news
        resp == [NoResp EXCEPT !.kind = req[r].op, !.symbols = req[r].symbols,
                               !.page = req[r].page, !.limit = req[r].limit,
                               !.since = req[r].since,
                               !.fetches = PAGE_COUNT - req[r].pending,
                               !.calls = out.calls,
                               !.fetch_tasks = req[r].fetch_tasks,
                               !.api_results = api_results,
                               !.replies = replies]
    IN  IF out.raised
        THEN /\ last' = [resp EXCEPT !.status = 500]
             /\ UNCHANGED <<news_cache, written>>
        ELSE IF fetched_news # <<>>
        THEN /\ news_cache' = SetItem(news_cache, cache_key, merged, now,
                                      NEWS_CACHE_TTL, NEWS_CACHE_MAXSIZE)
             /\ written' = Write(cache_key, merged)
             /\ last' = [resp EXCEPT !.status = 200, !.body = fetched_news]
        ELSE /\ last' = [resp EXCEPT !.status = 200]
             /\ UNCHANGED <<news_cache, written>>

\* `if fetched_news:` sort, cache and return it, else return [].
Deliver(r, cache_key, api_results, out, replies) ==
    LET fetched_news == SortDesc(out.news)
        resp == [NoResp EXCEPT !.kind = req[r].op, !.symbols = req[r].symbols,
                               !.page = req[r].page, !.limit = req[r].limit,
                               !.since = req[r].since,
                               !.fetches = PAGE_COUNT - req[r].pending,
                               !.calls = out.calls,
                               !.fetch_tasks = req[r].fetch_tasks,
                               !.api_results = api_results,
                               !.replies = replies]
    IN  IF out.raised
        THEN /\ last' = [resp EXCEPT !.status = 500]
             /\ UNCHANGED <<news_cache, written>>
        ELSE IF fetched_news # <<>>
        THEN /\ news_cache' = SetItem(news_cache, cache_key, fetched_news, now,
                                      NEWS_CACHE_TTL, NEWS_CACHE_MAXSIZE)
             /\ written' = Write(cache_key, fetched_news)
             /\ last' = [resp EXCEPT !.status = 200, !.body = fetched_news]
        ELSE /\ last' = [resp EXCEPT !.status = 200]
             /\ UNCHANGED <<news_cache, written>>

\* A join that resumes the handler as soon as one page fetch has returned.
ResumeFirstCompleted(r, op, cache_key) ==
    /\ req[r].pc = "fetching"
    /\ req[r].op = op
    /\ req[r].pending < PAGE_COUNT
    /\ \E api_results \in ApiResults :
           \E replies \in [1..CallsNeeded(api_results, 1) -> upstream.sentiment] :
               Deliver(r, cache_key, api_results,
                       Combine(api_results, 1, replies, <<>>, 0), replies)
    /\ req' = [req EXCEPT ![r] = IdleReq]
    /\ UNCHANGED <<upstream, now, ticks, budget, rate_limit_cache, accepted>>

\* The handler resumes after the gather: transform and enrich every page,
\* then finish the request.  Nothing is awaited in between (get_sentiment
\* blocks), so the step is atomic.
Resume(r, op, cache_key) ==
    /\ req[r].pc = "fetching"
    /\ req[r].op = op
    /\ req[r].pending = 0
    /\ \E api_results \in ApiResults :
           \E replies \in [1..CallsNeeded(api_results, 1) -> upstream.sentiment] :
               Deliver(r, cache_key, api_results,
                       Combine(api_results, 1, replies, <<>>, 0), replies)
    /\ req' = [req EXCEPT ![r] = IdleReq]
    /\ UNCHANGED <<upstream, now, ticks, budget, rate_limit_cache, accepted>>

get_news_resume(r) ==
    Resume(r, "news", CacheKey(req[r].symbols, req[r].page, req[r].limit))

refresh_news_resume(r) ==
    Resume(r, "refresh", RefreshKey(req[r].symbols))

\* GET /api/stats
get_stats(symbols) ==
    LET cache_key == StatsKey(symbols)
        resp == [NoResp EXCEPT !.kind = "stats", !.symbols = symbols,
                               !.page = CANONICAL_PAGE, !.limit = CANONICAL_LIMIT]
    IN  /\ Arrive
        /\ IF ~Contains(news_cache, cache_key, now)
           THEN /\ last' = [resp EXCEPT !.status = 200]
                /\ UNCHANGED <<now, news_cache>>
           ELSE \E d \in Drift :
                    LET cached == GetItem(news_cache, cache_key, now + d)
                    IN  /\ now' = now + d
                        /\ news_cache' = Touch(news_cache, cache_key)
                        /\ last' = IF cached = None
                                   THEN [resp EXCEPT !.status = 500, !.hit = TRUE]
                                   ELSE [resp EXCEPT !.status = 200, !.hit = TRUE,
                                                     !.body = cached[1],
                                                     !.stats = Stats(cached[1])]
        /\ UNCHANGED <<upstream, ticks, rate_limit_cache, req, accepted, written>>

Next ==
    \/ \E d \in TickSteps : Tick(d)
    \/ \E r \in Req, symbols \in Symbols, page \in Pages, limit \in Limits :
           get_news(r, symbols, page, limit)
    \/ \E r \in Req, symbols \in Symbols : refresh_news(r, symbols)
    \/ \E r \in Req : fetch_news_page(r)
    \/ \E r \in Req : get_news_resume(r)
    \/ \E r \in Req : refresh_news_resume(r)
    \/ \E symbols \in Symbols : get_stats(symbols)

Spec == Init /\ [][Next]_vars

\* ------------------------------------------------------------ one run
\* The behaviours of a single request against every kind of upstream answer.
InitPipeline ==
    /\ upstream = RichUpstream
    /\ now = 0
    /\ ticks = 0
    /\ budget = 1
    /\ rate_limit_cache = <<>>
    /\ news_cache = <<>>
    /\ req = [r \in Req |-> IdleReq]
    /\ last = NoResp
    /\ accepted = {}
    /\ written = {}

NextPipeline ==
    \/ \E r \in Req, symbols \in Symbols, page \in Pages, limit \in Limits :
           get_news(r, symbols, page, limit)
    \/ \E r \in Req, symbols \in Symbols : refresh_news(r, symbols)
    \/ \E r \in Req : fetch_news_page(r)
    \/ \E r \in Req : get_news_resume(r)
    \/ \E r \in Req : refresh_news_resume(r)

SpecPipeline == InitPipeline /\ [][NextPipeline]_vars

\* ------------------------------------------------------------ many keys
\* Requests for more rate-limit keys than rate_limit_cache holds, all within
\* one window, while both providers are down.
Tickers ==
    <<"T01", "T02", "T03", "T04", "T05", "T06", "T07", "T08", "T09", "T10",
     "T11", "T12", "T13", "T14", "T15", "T16", "T17", "T18", "T19", "T20",
     "T21", "T22", "T23", "T24", "T25", "T26", "T27", "T28", "T29", "T30",
     "T31", "T32", "T33", "T34", "T35", "T36", "T37", "T38", "T39", "T40",
     "T41", "T42", "T43", "T44", "T45", "T46", "T47", "T48", "T49", "T50",
     "T51">>

DownUpstream ==
    [pages |-> [page \in 1..PAGE_COUNT |-> {None}], sentiment |-> {None}]

FloodRequests == RATE_LIMIT_MAXSIZE + 2

\* The i-th request of the flood: get_news and refresh_news alternate over
\* the tickers, and the last request repeats the first.
FloodIndex == FloodRequests - budget + 1

FloodSymbols ==
    IF FloodIndex = FloodRequests THEN Some(Tickers[1])
    ELSE Some(Tickers[(FloodIndex + 1) \div 2])

InitFlood ==
    /\ upstream = DownUpstream
    /\ now = 0
    /\ ticks = 0
    /\ budget = FloodRequests
    /\ rate_limit_cache = <<>>
    /\ news_cache = <<>>
    /\ req = [r \in Req |-> IdleReq]
    /\ last = NoResp
    /\ accepted = {}
    /\ written = {}

NextFlood ==
    \/ \E r \in Req :
           /\ FloodIndex % 2 = 1 \/ FloodIndex = FloodRequests
           /\ get_news(r, FloodSymbols, CANONICAL_PAGE, CANONICAL_LIMIT)
    \/ \E r \in Req :
           /\ FloodIndex % 2 = 0 /\ FloodIndex < FloodRequests
           /\ refresh_news(r, FloodSymbols)
    \/ \E r \in Req : fetch_news_page(r)
    \/ \E r \in Req : get_news_resume(r)
    \/ \E r \in Req : refresh_news_resume(r)

SpecFlood == InitFlood /\ [][NextFlood]_vars

\* ------------------------------------------------------------ fan-out
\* Requests with several values of limit, within one rate-limit window.
FanoutLimits == {30, 20, 2}

NextFanout ==
    \/ \E r \in Req, symbols \in Symbols, page \in Pages, limit \in FanoutLimits :
           get_news(r, symbols, page, limit)
    \/ \E r \in Req, symbols \in Symbols : refresh_news(r, symbols)
    \/ \E r \in Req : fetch_news_page(r)
    \/ \E r \in Req : get_news_resume(r)
    \/ \E r \in Req : refresh_news_resume(r)

SpecFanout == Init /\ [][NextFanout]_vars

\* ------------------------------------------------------------ progress
\* Every page request returns or fails (the client has a 30 s timeout) and
\* the event loop resumes a handler whose gather is complete.
Fairness ==
    \A r \in Req :
        /\ WF_vars(fetch_news_page(r))
        /\ WF_vars(get_news_resume(r))
        /\ WF_vars(refresh_news_resume(r))

SpecLive == Init /\ [][NextFanout]_vars /\ Fairness

\* ------------------------------------------------------------ statistics
\* Refreshes of the general feed against a provider with more than 5 sources
\* and more than 5 symbols, and get_stats calls.
Raw(uuid, source, published_at, symbols) ==
    [uuid |-> uuid, title |-> "t", description |-> "d", source |-> source, url |-> "u",
     published_at |-> published_at,
     entities |-> [i \in 1..Len(symbols) |-> Entity("equity", symbols[i])]]

WidePage ==
    <<Raw("d", "C", 9, <<"GOOG">>), Raw("e", "D", 8, <<"AMZN">>),
      Raw("f", "E", 7, <<"TSLA">>), Raw("g", "F", 6, <<"NVDA", "NVDA">>)>>

StatsUpstream ==
    [pages |-> [page \in 1..PAGE_COUNT |->
                   {None} \cup
                   CASE page = 1 -> {Some([data |-> <<RawA, RawB>>])}
                     [] page = 2 -> {Some([data |-> <<RawC>>])}
                     [] page = 3 -> {Some([data |-> WidePage])}
                     [] OTHER -> {Some([data |-> <<RawA>>])}],
     sentiment |-> {None, Ranked("Positive", 90), Ranked("NEGATIVE", 80)}]

InitStats ==
    /\ upstream = StatsUpstream
    /\ now = 0
    /\ ticks = 0
    /\ budget = MaxRequests
    /\ rate_limit_cache = <<>>
    /\ news_cache = <<>>
    /\ req = [r \in Req |-> IdleReq]
    /\ last = NoResp
    /\ accepted = {}
    /\ written = {}

NextStats ==
    \/ \E r \in Req : refresh_news(r, None)
    \/ \E r \in Req : fetch_news_page(r)
    \/ \E r \in Req : refresh_news_resume(r)
    \/ \E symbols \in Symbols : get_stats(symbols)

SpecStats == InitStats /\ [][NextStats]_vars

\* ------------------------------------------------------------ properties
Labels == {"POSITIVE", "NEUTRAL", "NEGATIVE"}

\* last is the response of a list-news or refresh-news request.
Answered == last.kind \in {"news", "refresh"}

\* last is the response of a request that ran the pipeline.
RanPipeline == Answered /\ last.fetches > 0

InWindow(since) == since >= 0 /\ since < RATE_LIMIT_TTL

Fetching(r) == req[r].pc = "fetching"

\* C1: a list-news or refresh-news request is rejected with 429 when a request
\* of its kind for its symbols filter was accepted less than 10 time units
\* earlier, and is accepted when none was or the window has elapsed.
C1_RateWindow ==
    /\ Answered =>
           /\ InWindow(last.since) => last.status = 429
           /\ ~InWindow(last.since) => last.status # 429
    /\ \A r \in Req : Fetching(r) => ~InWindow(req[r].since)

\* C2: the step that answers 429 starts no pipeline run, issues no page fetch
\* and no sentiment call and leaves the news cache as it was; every run in
\* flight belongs to a request that passed its rate check.
C2_RejectDoesNothing ==
    /\ [][last'.status = 429 =>
            /\ news_cache' = news_cache
            /\ written' = written
            /\ req' = req
            /\ last'.fetches = 0
            /\ last'.calls = 0]_vars
    /\ [](\A r \in Req :
            Fetching(r) => AcceptedAt(req[r].op, req[r].symbols) >= 0)

\* A request rejected after the run of the accepted one has filled the cache.
C2_Witness ==
    /\ Answered
    /\ last.status = 429
    /\ news_cache # <<>>

\* C3: a list-news request that passed the rate check and found its key in
\* the news cache answers 200 with the value last written under the key and
\* made no page fetch and no sentiment call.
C3_HitServesStored ==
    (last.kind = "news" /\ last.hit) =>
        /\ last.status = 200
        /\ last.body = WrittenAt(CacheKey(last.symbols, last.page, last.limit))
        /\ last.fetches = 0
        /\ last.calls = 0

\* last is the non-empty answer of a refresh-news request that just completed.
Refreshed == last.kind = "refresh" /\ last.status = 200 /\ last.body # <<>>

\* C4: when refresh-news(symbols) has just answered a non-empty list, a
\* list-news(symbols, 1, 30) request arriving next is rejected or answers that
\* list without starting a run, and a stats(symbols) request arriving next is
\* computed from that list.
C4_RefreshVisible ==
    [][(Refreshed /\ budget' < budget) =>
          /\ \A r \in Req :
                 ~(/\ req'[r] # req[r]
                   /\ req'[r].op = "news"
                   /\ req'[r].symbols = last.symbols
                   /\ req'[r].page = CANONICAL_PAGE
                   /\ req'[r].limit = CANONICAL_LIMIT)
          /\ (/\ last'.kind = "news"
              /\ last'.symbols = last.symbols
              /\ last'.page = CANONICAL_PAGE
              /\ last'.limit = CANONICAL_LIMIT
              /\ last'.status # 429) =>
                 /\ last'.status = 200
                 /\ last'.body = last.body
                 /\ last'.fetches = 0
                 /\ last'.calls = 0
          /\ (last'.kind = "stats" /\ last'.symbols = last.symbols) =>
                 /\ last'.status = 200
                 /\ last'.stats = Stats(last.body)]_vars

\* A list-news hit on the canonical key when the only other accepted request
\* was a refresh-news for the same symbols.
C4_Witness ==
    /\ last.kind = "news"
    /\ last.hit
    /\ last.status = 200
    /\ last.page = CANONICAL_PAGE
    /\ last.limit = CANONICAL_LIMIT
    /\ last.body # <<>>
    /\ AcceptedAt("refresh", last.symbols) >= 0
    /\ Cardinality(accepted) = 2

\* C5: a list-news or refresh-news request never answers 500.
C5_NoServerError == Answered => last.status \in {200, 429}

\* The raw records of a fetch result.
RecordsOf(result) ==
    IF result # None /\ "data" \in DOMAIN result[1] THEN result[1].data ELSE <<>>

RECURSIVE Occurrences(_, _, _)
Occurrences(api_results, page, uuid) ==
    IF page > PAGE_COUNT THEN 0
    ELSE Cardinality({i \in 1..Len(RecordsOf(api_results[page])) :
                         RecordsOf(api_results[page])[i].uuid = uuid})
         + Occurrences(api_results, page + 1, uuid)

Uuids == {"a", "b", "c", "x"}

WellFormed(api_results) ==
    \A page \in 1..PAGE_COUNT :
        \A i \in 1..Len(RecordsOf(api_results[page])) :
            ~RecordRaises(RecordsOf(api_results[page])[i])

\* C6: the list a run answers holds each record of each page whose fetch
\* succeeded exactly once and nothing else; the run answers 200 whenever the
\* pages that succeeded are well formed, whichever pages failed, and answers
\* the empty list when all 4 failed.
C6_ExactlySucceededPages ==
    RanPipeline =>
        /\ last.status = 200 =>
               /\ \A i \in 1..Len(last.body) : last.body[i].id \in Uuids
               /\ \A uuid \in Uuids :
                      Cardinality({i \in 1..Len(last.body) : last.body[i].id = uuid})
                          = Occurrences(last.api_results, 1, uuid)
        /\ WellFormed(last.api_results) => last.status = 200
        /\ (\A page \in 1..PAGE_COUNT : last.api_results[page] = None) =>
               last.status = 200 /\ last.body = <<>>

\* Two pages failed, another brought two articles and another one.
C6_Witness ==
    /\ RanPipeline
    /\ last.status = 200
    /\ Cardinality({page \in 1..PAGE_COUNT : last.api_results[page] = None}) = 2
    /\ Len(last.body) = 3

Enriched(article) ==
    /\ {"sentiment", "sentiment_score"} \subseteq DOMAIN article
    /\ article.sentiment \in Labels
    /\ article.sentiment_score \in 0..100

AllEnriched(news) == \A i \in 1..Len(news) : Enriched(news[i])

\* C7: every article of every answered list and of every news cache entry has
\* a sentiment among POSITIVE, NEUTRAL, NEGATIVE and a sentiment score.
C7_AlwaysEnriched ==
    /\ Answered => AllEnriched(last.body)
    /\ \A i \in 1..Len(news_cache) : AllEnriched(news_cache[i].value)

\* A list served from the cache whose article had a failed sentiment call.
C7_Witness ==
    /\ last.kind = "news"
    /\ last.hit
    /\ last.status = 200
    /\ \E i \in 1..Len(last.body) :
           last.body[i].sentiment = "NEUTRAL" /\ last.body[i].sentiment_score = DEFAULT_SCORE

Descending(news) ==
    \A i, j \in 1..Len(news) : i < j => news[i].publishedAt >= news[j].publishedAt

OfDate(news, date) == SelectSeq(news, LAMBDA a : a.publishedAt = date)

\* The pages of the answered run, transformed, enriched and concatenated.
Concatenated == Combine(last.api_results, 1, last.replies, <<>>, 0).news

\* C8: every non-empty answered list and every news cache entry is in
\* descending publishedAt order, and the articles of one date are in the order
\* they have in the concatenation of the pages.
C8_SortedStable ==
    /\ (Answered /\ last.status = 200) => Descending(last.body)
    /\ \A i \in 1..Len(news_cache) : Descending(news_cache[i].value)
    /\ (RanPipeline /\ last.status = 200) =>
           \A date \in {last.body[i].publishedAt : i \in 1..Len(last.body)} :
               OfDate(last.body, date) = OfDate(Concatenated, date)

\* A run whose concatenation was out of order and held two different
\* articles of one date.
C8_Witness ==
    /\ RanPipeline
    /\ last.status = 200
    /\ last.body # Concatenated
    /\ \E i, j \in 1..Len(last.body) :
           /\ i < j
           /\ last.body[i].publishedAt = last.body[j].publishedAt
           /\ last.body[i].id # last.body[j].id
    /\ \E i \in 1..Len(news_cache) : news_cache[i].value = last.body

NoArticles(api_results) ==
    \A page \in 1..PAGE_COUNT : RecordsOf(api_results[page]) = <<>>

\* C9: no news cache entry is an empty list, and a run whose pages bring no
\* article answers the empty list and leaves the news cache as it was.
C9_EmptyNotCached ==
    /\ [](\A i \in 1..Len(news_cache) : news_cache[i].value # <<>>)
    /\ [][(last'.kind \in {"news", "refresh"} /\ last'.fetches > 0
             /\ NoArticles(last'.api_results)) =>
            /\ last'.status = 200
            /\ last'.body = <<>>
            /\ news_cache' = news_cache]_vars

\* A refresh-news run that brought nothing while its target key was cached.
C9_Witness ==
    /\ last.kind = "refresh"
    /\ last.fetches > 0
    /\ last.status = 200
    /\ last.body = <<>>
    /\ Contains(news_cache, CacheKey(last.symbols, CANONICAL_PAGE, CANONICAL_LIMIT), now)

\* C10: a list-news or refresh-news request is rejected only when a request of
\* its own kind for its symbols filter was accepted within the window: requests
\* of the other kind never make it rejected.
C10_NamespacesIndependent ==
    (Answered /\ last.status = 429) => InWindow(last.since)

\* A refresh-news accepted while the marker of a list-news for the same
\* symbols is live, or the other way round.
C10_Witness ==
    \E symbols \in Symbols :
        /\ Contains(rate_limit_cache, NewsRateKey(symbols), now)
        /\ Contains(rate_limit_cache, RefreshRateKey(symbols), now)

\* The key "news:{symbols}:1:30" of the canonical entry of a symbols filter.
CanonicalKey(symbols) ==
    <<"news", IF symbols = None THEN "None" ELSE symbols[1], 1, 30>>

\* C11: a stats call during which the canonical entry of its symbols is absent
\* or expires answers the no-data status and never a 500, issues no page fetch
\* and no sentiment call, and leaves the live entries of the news cache, the
\* rate-limit markers and the requests in flight as they were.
C11_StatsNoData ==
    [][(last'.kind = "stats" /\ ~Contains(news_cache, CanonicalKey(last'.symbols), now')) =>
          /\ last'.status = 200
          /\ last'.stats = NoData
          /\ last'.fetches = 0
          /\ last'.calls = 0
          /\ req' = req
          /\ rate_limit_cache' = rate_limit_cache
          /\ Expire(news_cache', now') = Expire(news_cache, now')]_vars

\* The key "news:{symbols}:{page}:{limit}" of a list-news request.
NewsKey(symbols, page, limit) ==
    <<"news", IF symbols = None THEN "None" ELSE symbols[1], page, limit>>

\* The entry last written under the key is younger than the TTL at time t.
Fresh(key, t) == WriteTime(key) >= 0 /\ t - WriteTime(key) < 600

\* C12: a list-news answer served from the cache and a stats result are
\* computed from an entry written less than 600 time units earlier; a
\* list-news request accepted when 600 units have passed since the write of
\* its key is not answered from the cache but runs the pipeline, and a stats
\* call arriving then reports no data.
C12_ExpiredIsMiss ==
    /\ []((last.kind = "news" /\ last.hit /\ last.status = 200) =>
              Fresh(NewsKey(last.symbols, last.page, last.limit), now))
    /\ []((last.kind = "stats" /\ last.stats # NoData) =>
              Fresh(CanonicalKey(last.symbols), now))
    /\ [][(last'.kind = "news" /\ last'.status # 429 /\ last'.fetches = 0) =>
              Fresh(NewsKey(last'.symbols, last'.page, last'.limit), now)]_vars
    /\ [][(last'.kind = "stats" /\ ~Fresh(CanonicalKey(last'.symbols), now)) =>
              /\ last'.status = 200
              /\ last'.stats = NoData
              /\ ~last'.hit]_vars
    /\ [][\A r \in Req :
              (/\ ~Fetching(r)
               /\ req'[r].pc = "fetching"
               /\ req'[r].op = "news"
               /\ WriteTime(NewsKey(req'[r].symbols, req'[r].page, req'[r].limit)) >= 0) =>
                  ~Fresh(NewsKey(req'[r].symbols, req'[r].page, req'[r].limit), now)]_vars

\* A list-news run in flight for a key whose entry was written 600 or more
\* time units before.
C12_Witness ==
    \E r \in Req :
        /\ Fetching(r)
        /\ req[r].op = "news"
        /\ WriteTime(NewsKey(req[r].symbols, req[r].page, req[r].limit)) >= 0
        /\ now - WriteTime(NewsKey(req[r].symbols, req[r].page, req[r].limit)) >= 600

\* C13: a step that accepts refresh-news(symbols) starts a run of 4 page
\* fetches with page size 10, whether or not the canonical entry is live; an
\* accepted refresh-news is answered only by its run; a non-empty answer is
\* then the live value under "news:{symbols}:1:30" and the value under every
\* other key is as before.
C13_RefreshAlwaysFetches ==
    /\ [][\A symbols \in Symbols :
              AcceptedAt("refresh", symbols)' # AcceptedAt("refresh", symbols) =>
                  \E r \in Req :
                      /\ ~Fetching(r)
                      /\ req'[r].pc = "fetching"
                      /\ req'[r].op = "refresh"
                      /\ req'[r].symbols = symbols
                      /\ req'[r].pending = 4
                      /\ Len(req'[r].fetch_tasks) = 4
                      /\ \A p \in 1..4 : req'[r].fetch_tasks[p].limit = 10]_vars
    /\ []((last.kind = "refresh" /\ last.status # 429) =>
              last.fetches = 4 /\ ~last.hit)
    /\ [][(last'.kind = "refresh" /\ last'.status = 200 /\ last'.body # <<>>) =>
              /\ GetItem(news_cache', CanonicalKey(last'.symbols), now') = Some(last'.body)
              /\ \A key \in CacheKeysOf(news_cache) \cup CacheKeysOf(news_cache') :
                     key # CanonicalKey(last'.symbols) =>
                         GetItem(news_cache', key, now') = GetItem(news_cache, key, now')]_vars

\* A refresh-news run in flight while the canonical entry of its symbols is
\* live.
C13_Witness ==
    \E r \in Req :
        /\ Fetching(r)
        /\ req[r].op = "refresh"
        /\ Contains(news_cache, CanonicalKey(req[r].symbols), now)

\* What the sentiment call of one article is to yield: NEUTRAL and 0.5 when
\* the call failed or came back empty, else the label of the best score.
OwnCall(reply) ==
    CASE reply = None -> [label |-> "NEUTRAL", score |-> 50]
      [] reply = Some(<<>>) -> [label |-> "NEUTRAL", score |-> 50]
      [] reply = Ranked("Positive", 90) -> [label |-> "POSITIVE", score |-> 90]
      [] reply = Ranked("NEGATIVE", 80) -> [label |-> "NEGATIVE", score |-> 80]
      [] reply = Ranked("bullish", 70) -> [label |-> "NEUTRAL", score |-> 70]
      [] OTHER -> [label |-> "", score |-> -1]

\* The raw records of the pages in the order the run reads them; the k-th
\* sentiment call of a run that did not fail is the call for the k-th record.
RawOf(api_results) ==
    RecordsOf(api_results[1]) \o RecordsOf(api_results[2])
        \o RecordsOf(api_results[3]) \o RecordsOf(api_results[4])

\* C14: a run whose pages are well formed answers 200 whatever its sentiment
\* calls returned, and its answer holds every article with the result of the
\* article's own call: NEUTRAL and 0.5 when that call failed or came back
\* empty, the label and score of that call otherwise.
C14_FailedCallIsNeutral ==
    RanPipeline =>
        /\ WellFormed(last.api_results) => last.status = 200
        /\ last.status = 200 =>
               /\ Len(last.replies) = Len(RawOf(last.api_results))
               /\ Len(last.body) = Len(RawOf(last.api_results))
               /\ \A uuid \in Uuids, reply \in upstream.sentiment :
                      Cardinality({i \in 1..Len(last.body) :
                                      /\ last.body[i].id = uuid
                                      /\ last.body[i].sentiment = OwnCall(reply).label
                                      /\ last.body[i].sentiment_score = OwnCall(reply).score})
                          = Cardinality({k \in 1..Len(last.replies) :
                                            /\ RawOf(last.api_results)[k].uuid = uuid
                                            /\ OwnCall(last.replies[k]) = OwnCall(reply)})

\* A run of one page with two articles: the call of the first failed and
\* the call of the second answered Positive.
C14_Witness ==
    /\ RanPipeline
    /\ last.status = 200
    /\ Len(last.replies) = 2
    /\ Len(RecordsOf(last.api_results[1])) = 2
    /\ last.replies[1] = None
    /\ last.replies[2] = Ranked("Positive", 90)

\* C15: a run leaves its fetch stage only when all 4 page fetches have
\* returned, so every answer of a run, and with it every transformed page
\* and every sentiment call, comes after 4 completed fetches, also when some
\* of them failed.
C15_FullBarrier ==
    /\ [][\A r \in Req :
              (Fetching(r) /\ req'[r].pc # "fetching") =>
                  /\ req[r].pending = 0
                  /\ last'.fetches = 4]_vars
    /\ []((Answered /\ (last.calls > 0 \/ last.fetches > 0)) => last.fetches = 4)
    /\ []((Answered /\ ~last.hit /\ last.status # 429) => last.fetches = 4)
    /\ [](\A r \in Req : Fetching(r) => req[r].pending \in 0..4)

\* A run whose first page failed and whose later pages were still read and
\* enriched.
C15_Witness ==
    /\ RanPipeline
    /\ last.fetches = 4
    /\ last.api_results[1] = None
    /\ last.calls > 0

\* Number of occurrences of a symbol in the relatedSymbols of the articles.
RECURSIVE SymbolOccurrences(_, _)
SymbolOccurrences(entry, x) ==
    IF entry = <<>> THEN 0
    ELSE Cardinality({k \in 1..Len(Head(entry).relatedSymbols) :
                         Head(entry).relatedSymbols[k] = x})
         + SymbolOccurrences(Tail(entry), x)

SourceOccurrences(entry, x) == Cardinality({i \in 1..Len(entry) : entry[i].source = x})

SourcesOf(entry) == {entry[i].source : i \in 1..Len(entry)}

SymbolsOf(entry) ==
    UNION {{entry[i].relatedSymbols[k] : k \in 1..Len(entry[i].relatedSymbols)} :
              i \in 1..Len(entry)}

TopNames(top) == {top[j].name : j \in 1..Len(top)}

\* top holds min(5, number of names) distinct names with their counts, and no
\* name left out has a higher count than a name in it.
IsTopFive(top, names, occurrences(_)) ==
    /\ Len(top) = (IF Cardinality(names) < 5 THEN Cardinality(names) ELSE 5)
    /\ Cardinality(TopNames(top)) = Len(top)
    /\ TopNames(top) \subseteq names
    /\ \A j \in 1..Len(top) : top[j].count = occurrences(top[j].name)
    /\ \A x \in names \ TopNames(top) :
           \A j \in 1..Len(top) : occurrences(x) <= top[j].count

\* 2 POSITIVE articles from source A, 1 NEGATIVE from source B, with the
\* symbols AAPL, AAPL, MSFT.
IsFixture(entry) ==
    /\ Len(entry) = 3
    /\ Cardinality({i \in 1..3 : entry[i].sentiment = "POSITIVE" /\ entry[i].source = "A"}) = 2
    /\ Cardinality({i \in 1..3 : entry[i].sentiment = "NEGATIVE" /\ entry[i].source = "B"}) = 1
    /\ SymbolsOf(entry) = {"AAPL", "MSFT"}
    /\ SymbolOccurrences(entry, "AAPL") = 2
    /\ SymbolOccurrences(entry, "MSFT") = 1

\* The entry last written under the canonical key of the answered stats call.
StatsEntry == WrittenAt(CanonicalKey(last.symbols))

\* C16: a stats result computed from a canonical entry has total_articles
\* equal to the entry's length, a sentiment_distribution over exactly the
\* three labels with the per-label article counts (which sum to the total),
\* and top_sources and top_symbols holding the at most 5 names of highest
\* count, a symbol counting once per occurrence in relatedSymbols; on the
\* fixture it is {POSITIVE:2, NEUTRAL:0, NEGATIVE:1}, {A:2, B:1},
\* {AAPL:2, MSFT:1}.
C16_StatsOfEntry ==
    (last.kind = "stats" /\ last.hit /\ last.status = 200) =>
        /\ last.stats.total_articles = Len(StatsEntry)
        /\ DOMAIN last.stats.sentiment_distribution = {"POSITIVE", "NEUTRAL", "NEGATIVE"}
        /\ \A l \in {"POSITIVE", "NEUTRAL", "NEGATIVE"} :
               last.stats.sentiment_distribution[l]
                   = Cardinality({i \in 1..Len(StatsEntry) : StatsEntry[i].sentiment = l})
        /\ last.stats.sentiment_distribution["POSITIVE"]
               + last.stats.sentiment_distribution["NEUTRAL"]
               + last.stats.sentiment_distribution["NEGATIVE"] = last.stats.total_articles
        /\ IsTopFive(last.stats.top_sources, SourcesOf(StatsEntry),
                     LAMBDA x : SourceOccurrences(StatsEntry, x))
        /\ IsTopFive(last.stats.top_symbols, SymbolsOf(StatsEntry),
                     LAMBDA x : SymbolOccurrences(StatsEntry, x))
        /\ IsFixture(StatsEntry) =>
               /\ last.stats.sentiment_distribution
                      = [l \in {"POSITIVE", "NEUTRAL", "NEGATIVE"} |->
                            CASE l = "POSITIVE" -> 2 [] l = "NEUTRAL" -> 0 [] OTHER -> 1]
               /\ last.stats.top_sources
                      = <<[name |-> "A", count |-> 2], [name |-> "B", count |-> 1]>>
               /\ last.stats.top_symbols
                      = <<[name |-> "AAPL", count |-> 2], [name |-> "MSFT", count |-> 1]>>

\* Stats of an entry with 6 sources and 6 symbols: the source with 3 articles
\* is the last one met and a source with 1 article is left out.
C16_Witness ==
    /\ last.kind = "stats"
    /\ last.hit
    /\ last.status = 200
    /\ Cardinality(SourcesOf(StatsEntry)) = 6
    /\ Cardinality(SymbolsOf(StatsEntry)) = 6
    /\ Len(last.stats.top_sources) = 5
    /\ last.stats.top_sources[1] = [name |-> "A", count |-> 3]
    /\ StatsEntry[Len(StatsEntry)].source = "A"

\* The value stored under a key of a cache.
ValueOf(cache, key) == cache[CHOOSE i \in 1..Len(cache) : cache[i].key = key].value

\* The key an answered list-news or refresh-news run writes.
AnsweredKey(resp) ==
    IF resp.kind = "news" THEN NewsKey(resp.symbols, resp.page, resp.limit)
    ELSE CanonicalKey(resp.symbols)

\* C17: every news cache entry is the value of the last write under its key;
\* the value under a key changes, or appears, only in the step in which a run
\* for that key answers a non-empty list, and is then exactly that list, which
\* has one article per record of the run's pages.
C17_WholeReplace ==
    /\ [](\A i \in 1..Len(news_cache) :
              news_cache[i].value = WrittenAt(news_cache[i].key))
    /\ [][\A key \in CacheKeysOf(news_cache') :
              (key \notin CacheKeysOf(news_cache)
                  \/ ValueOf(news_cache', key) # ValueOf(news_cache, key)
                  \/ Writes(key)' # Writes(key)) =>
                  /\ last'.kind \in {"news", "refresh"}
                  /\ last'.fetches > 0
                  /\ last'.status = 200
                  /\ last'.body # <<>>
                  /\ AnsweredKey(last') = key
                  /\ ValueOf(news_cache', key) = last'.body
                  /\ Len(last'.body) = Len(RawOf(last'.api_results))]_vars

\* A list-news run and a refresh-news run in flight together wrote the same
\* key, the list-news run last.
C17_Witness ==
    /\ now = 0
    /\ last.kind = "news"
    /\ last.fetches > 0
    /\ last.status = 200
    /\ Writes(AnsweredKey(last)) = 2
    /\ \E i \in 1..Len(news_cache) :
           news_cache[i].key = AnsweredKey(last) /\ news_cache[i].value = last.body

\* The page size of a run: 10 for refresh-news, the integer third of limit
\* for list-news.
PageSize(op, limit) ==
    IF op = "refresh" THEN 10
    ELSE CHOOSE q \in 0..limit : 3 * q <= limit /\ limit < 3 * q + 3

\* The 4 page requests of a run: pages 1, 2, 3, 4, each with the symbols of
\* the request (the empty filter when it has none) and the run's page size.
FourPages(tasks, op, symbols, limit) ==
    /\ Len(tasks) = 4
    /\ \A p \in 1..4 :
           /\ tasks[p].page = p
           /\ tasks[p].symbols = (IF symbols = None THEN "" ELSE symbols[1])
           /\ tasks[p].limit = PageSize(op, limit)

\* C18: every run, in flight or answered, consists of exactly 4 page fetches,
\* for pages 1 to 4, with the request's symbols and one page size (limit // 3
\* for list-news, 10 for refresh-news), whatever the page of the request.
C18_FourPagesSameSize ==
    /\ \A r \in Req :
           Fetching(r) =>
               /\ FourPages(req[r].fetch_tasks, req[r].op, req[r].symbols, req[r].limit)
               /\ req[r].pending \in 0..4
    /\ RanPipeline =>
           /\ last.fetches = 4
           /\ FourPages(last.fetch_tasks, last.kind, last.symbols, last.limit)

\* A list-news run for page 2 with limit 20 has answered.
C18_Witness ==
    /\ RanPipeline
    /\ last.kind = "news"
    /\ last.page = 2
    /\ last.limit = 20
    /\ last.fetch_tasks[1].limit = 6

\* The record of a request of a kind accepted at the present time.
AcceptedNow(kind, symbols) ==
    [kind |-> kind, filter |-> IF symbols = None THEN "general" ELSE symbols[1],
     at |-> now]

\* C19: a list-news or refresh-news request is answered exactly once: either
\* in the step it arrives (429 from the rate check, or, for an accepted
\* list-news that found its key, the cached list or a 500) or it starts a run
\* after an accepted rate check and, for list-news, a missed cache check; a
\* run in flight eventually ends, in one step that answers 200 or 500 and
\* frees the request, and a non-empty answer is then already in the cache.
C19_OneOutcomeInOrder ==
    /\ \A r \in Req : Fetching(r) ~> ~Fetching(r)
    /\ [][(budget' < budget /\ last'.kind # "stats") =>
              \/ /\ last'.kind = "none"
                 /\ \E r \in Req :
                        /\ ~Fetching(r)
                        /\ req'[r].pc = "fetching"
                        /\ req'[r].pending = 4
                        /\ AcceptedNow(req'[r].op, req'[r].symbols) \in accepted'
                        /\ req'[r].op = "news" =>
                               ~Contains(news_cache,
                                         NewsKey(req'[r].symbols, req'[r].page, req'[r].limit),
                                         now)
                        /\ \A q \in Req \ {r} : req'[q] = req[q]
              \/ /\ last'.kind \in {"news", "refresh"}
                 /\ req' = req
                 /\ last'.fetches = 0
                 /\ last'.calls = 0
                 /\ \/ last'.status = 429 /\ ~last'.hit /\ accepted' = accepted
                    \/ /\ last'.status \in {200, 500}
                       /\ last'.kind = "news"
                       /\ last'.hit
                       /\ AcceptedNow("news", last'.symbols) \in accepted']_vars
    /\ [][\A r \in Req :
              (Fetching(r) /\ req'[r].pc # "fetching") =>
                  /\ req'[r].pc = "idle"
                  /\ budget' = budget
                  /\ last'.kind = req[r].op
                  /\ last'.symbols = req[r].symbols
                  /\ last'.status \in {200, 500}
                  /\ last'.fetches = 4
                  /\ (last'.status = 200 /\ last'.body # <<>>) =>
                         \E i \in 1..Len(news_cache') :
                             /\ news_cache'[i].key = AnsweredKey(last')
                             /\ news_cache'[i].value = last'.body
                             /\ now' < news_cache'[i].expires]_vars
    /\ [][last'.kind \in {"news", "refresh"} =>
              \/ budget' < budget
              \/ \E r \in Req : Fetching(r) /\ req'[r].pc # "fetching"]_vars

\* Two accepted requests have both ended, the last one with a non-empty
\* answer of its run.
C19_Witness ==
    /\ budget = 0
    /\ \A r \in Req : ~Fetching(r)
    /\ Cardinality(accepted) = 2
    /\ RanPipeline
    /\ last.status = 200
    /\ last.body # <<>>

\* A request of the kind for the symbols was accepted less than 10 time
\* units ago.
AcceptedWithinWindow(kind, symbols) ==
    \E e \in accepted :
        /\ e.kind = kind
        /\ e.filter = (IF symbols = None THEN "general" ELSE symbols[1])
        /\ now - e.at < 10

\* C20: the step that accepts a list-news or refresh-news request records its
\* marker, whether it goes on to a cache hit or to a run; the step that ends a
\* run (with a list, an empty list or a 500) leaves the markers as they are;
\* and a request of the same kind and symbols arriving within 10 time units of
\* an accepted one is answered 429 and starts no run, whatever the outcome of
\* the accepted one was and whatever its own page and limit are.
C20_MarkerSurvives ==
    /\ [][(last'.kind \in {"news", "refresh"} /\ budget' < budget
              /\ last'.status # 429) =>
              AcceptedNow(last'.kind, last'.symbols) \in accepted']_vars
    /\ [][\A r \in Req :
              (Fetching(r) /\ req'[r].pc # "fetching") =>
                  /\ rate_limit_cache' = rate_limit_cache
                  /\ accepted' = accepted]_vars
    /\ [][(last'.kind \in {"news", "refresh"} /\ budget' < budget
              /\ AcceptedWithinWindow(last'.kind, last'.symbols)) =>
              last'.status = 429]_vars
    /\ [][\A r \in Req :
              (~Fetching(r) /\ req'[r].pc = "fetching") =>
                  ~AcceptedWithinWindow(req'[r].op, req'[r].symbols)]_vars

====
